---- MODULE Spec2Model ----
(***************************************************************************)
(* legendary: merge Go coverage profiles per source file, classify every   *)
(* line of every covered file as Hit, Miss or Ignored, then print a        *)
(* hitlist and write the vim-legend file.                                   *)
(*                                                                         *)
(* The model follows the most recent main.go of the repository             *)
(* (src/unnamed/part_001, lines 319-653): main, collectCoverageContext,    *)
(* ingestCoverageFile, buildFileCoverage, printHitlist, writeOut.          *)
(***************************************************************************)
EXTENDS Integers, Sequences, FiniteSets, TLC

\* ------------------------------------------------------------------ bounds
MaxProfiles == 2      \* coverage files on the command line
MaxEntries == 2       \* per-file profiles in one coverage file
MaxBlocks == 1        \* blocks in one coverage file (over all its entries)
MaxLineNo == 1        \* largest line number a block mentions
MaxCount == 3         \* largest execution count of one block
MaxLines == 2         \* largest number of newlines in a source file
MaxLimit == 3         \* largest --limit
ScenarioMaxLineNo == 3   \* largest line number of the block of the one-block runs
ScenarioMaxLines == 5    \* largest number of newlines of their source file

\* ------------------------------------------------------------------ paths
\* A path is the sequence of its components; <<>> is ".". Only relative
\* paths occur: both roots are relative.
CoverageRoot == <<"..">>
ProjRoot == <<"..", "..">>

\* The file names coverage profiles report.
FileNames == { <<"..", "a">>, <<"..", "b">>, <<"a">> }

RECURSIVE CleanFrom(_, _)
CleanFrom(comps, acc) ==
    IF comps = <<>> THEN acc
    ELSE LET c == Head(comps) IN
         IF c = ".." /\ acc # <<>> /\ acc[Len(acc)] # ".."
         THEN CleanFrom(Tail(comps), SubSeq(acc, 1, Len(acc) - 1))
         ELSE CleanFrom(Tail(comps), Append(acc, c))

\* filepath.Clean on a relative path: "x/.." pairs cancel, leading ".." stay.
Clean(p) == CleanFrom(p, <<>>)

\* filepath.Join: concatenate, then Clean.
Join(a, b) == Clean(a \o b)

RECURSIVE CommonPrefixLen(_, _)
CommonPrefixLen(b, t) ==
    IF b # <<>> /\ t # <<>> /\ Head(b) = Head(t)
    THEN 1 + CommonPrefixLen(Tail(b), Tail(t))
    ELSE 0

\* filepath.Rel(basepath, targpath): strip the common leading components; it
\* is an error when the first differing component of base is "..", otherwise
\* one ".." per remaining component of base, then the rest of targ.
Rel(basepath, targpath) ==
    LET base == Clean(basepath)
        targ == Clean(targpath)
        n == CommonPrefixLen(base, targ)
        restB == SubSeq(base, n + 1, Len(base))
        restT == SubSeq(targ, n + 1, Len(targ))
    IN  IF targ = base THEN [err |-> FALSE, path |-> <<>>]
        ELSE IF restB # <<>> /\ restT # <<>> /\ restB[1] = ".."
        THEN [err |-> TRUE, path |-> <<>>]
        ELSE [err |-> FALSE, path |-> [i \in 1..Len(restB) |-> ".."] \o restT]

\* ------------------------------------------------------------------ inputs
\* cover.ProfileBlock, of which the program reads StartLine, EndLine, Count.
ProfileBlocks ==
    { b \in [StartLine : 0..MaxLineNo, EndLine : 0..MaxLineNo, Count : 0..MaxCount] :
        b.StartLine <= b.EndLine }

\* The ways to hand at most MaxBlocks blocks to the k profiles of a coverage
\* file: a list of (profile index, block), the indices never decreasing.
Placements(k) ==
    UNION { { pl \in [1..m -> (1..k) \X ProfileBlocks] :
                \A i \in 1..(m - 1) : pl[i][1] <= pl[i + 1][1] } : m \in 0..MaxBlocks }

\* The blocks a placement hands to profile j, in their order.
BlocksAt(pl, j) ==
    LET at == { i \in DOMAIN pl : pl[i][1] = j }
        before == Cardinality({ i \in DOMAIN pl : pl[i][1] < j })
    IN  [i \in 1..Cardinality(at) |-> pl[before + i][2]]

\* What cover.ParseProfiles returns for one coverage file: an error, or the
\* profiles (cover.Profile: FileName and Blocks of one source file) of the
\* file, at most MaxEntries of them with at most MaxBlocks blocks in all.
CoverageFiles ==
    { [parseErr |-> TRUE, profiles |-> <<>>] } \cup
    UNION { { [parseErr |-> FALSE,
               profiles |-> [j \in 1..k |->
                               [FileName |-> ns[j], Blocks |-> BlocksAt(pl, j)]]] :
                ns \in [1..k -> FileNames], pl \in Placements(k) } : k \in 0..MaxEntries }

\* What os.Open and lineCounter find at one path: the open fails, a read
\* fails, or the file is read to its end and holds `newlines` newline bytes.
SourceFiles ==
    { [openErr |-> TRUE, readErr |-> FALSE, newlines |-> 0],
      [openErr |-> FALSE, readErr |-> TRUE, newlines |-> 0] } \cup
    { [openErr |-> FALSE, readErr |-> FALSE, newlines |-> n] : n \in 0..MaxLines }

\* ------------------------------------------------------------------- state
VARIABLES
    pc,           \* where main is
    sourceFiles,  \* collectCoverageContext: the coverage files ingested so far
    Results,      \* ctx.Results: canonical path -> result
    Now,          \* ctx.Now
    pending,      \* the keys the range over ctx.Results has yet to produce
    disk,         \* the file system: opened path -> what was found there
    rsIn, psIn,   \* printHitlist: the two slices as the map ranges filled them
    rs, ps,       \* printHitlist: the two slices after sort.Sort
    limit,        \* printHitlist: the limit in force in the print loop
    rows,         \* printHitlist: the rows handed to the tabwriter
    out,          \* writeOut: what the output file holds
    emitErr       \* writeOut: the step that failed, if any

vars == <<pc, sourceFiles, Results, Now, pending, disk,
          rsIn, psIn, rs, ps, limit, rows, out, emitErr>>

hitlistVars == <<rsIn, psIn, rs, ps, limit, rows>>

\* ------------------------------------------------------------- aggregation
\* &result{filename: rn, counts: make(map[int]int)}
NewResult(rn) ==
    [filename |-> rn, lines |-> 0, counts |-> <<>>,
     Hits |-> <<>>, Misses |-> <<>>, Ignored |-> <<>>]

\* Mutant: the count of a block overwrites the stored one (= for +=).
AddBlock_Overwrite(counts, pb) ==
    [ln \in DOMAIN counts \cup (pb.StartLine..pb.EndLine) |->
        IF ln \in pb.StartLine..pb.EndLine THEN pb.Count ELSE counts[ln]]

\* for ln := pb.StartLine; ln <= pb.EndLine; ln++ { r.counts[ln] += pb.Count }
AddBlock(counts, pb) ==
    [ln \in DOMAIN counts \cup (pb.StartLine..pb.EndLine) |->
        (IF ln \in DOMAIN counts THEN counts[ln] ELSE 0)
        + (IF ln \in pb.StartLine..pb.EndLine THEN pb.Count ELSE 0)]

RECURSIVE AddBlocks(_, _)
\* for _, pb := range p.Blocks
AddBlocks(counts, blocks) ==
    IF blocks = <<>> THEN counts
    ELSE AddBlocks(AddBlock(counts, Head(blocks)), Tail(blocks))

\* Mutant: a fresh result replaces the one already in the map.
LookupOrCreate_AlwaysNew(results, rn) == NewResult(rn)

\* r, ok := ctx.Results[rn]; if !ok { r = &result{...}; ctx.Results[rn] = r }
LookupOrCreate(results, rn) ==
    IF rn \in DOMAIN results THEN results[rn] ELSE NewResult(rn)

\* One iteration of "for _, p := range ps" whose path resolved to rn.
MergeProfile(results, rn, p) ==
    LET r == LookupOrCreate(results, rn)
        merged == [r EXCEPT !.counts = AddBlocks(r.counts, p.Blocks)]
    IN  [k \in DOMAIN results \cup {rn} |-> IF k = rn THEN merged ELSE results[k]]

\* an := filepath.Join(coverageRoot, p.FileName); rn, err := filepath.Rel(projRoot, an)
Canonicalize(fileName) == Rel(ProjRoot, Join(CoverageRoot, fileName))

RECURSIVE IngestProfiles_Continue(_, _)
\* Mutant: a path that cannot be made relative skips that profile only
\* (continue for return).
IngestProfiles_Continue(results, profiles) ==
    IF profiles = <<>> THEN results
    ELSE LET p == Head(profiles)
             rel == Canonicalize(p.FileName)
         IN  IF rel.err THEN IngestProfiles_Continue(results, Tail(profiles))
             ELSE IngestProfiles_Continue(MergeProfile(results, rel.path, p), Tail(profiles))

RECURSIVE IngestProfiles(_, _)
\* "for _, p := range ps": a path that cannot be made relative ends the
\* function (return), leaving what was merged so far.
IngestProfiles(results, profiles) ==
    IF profiles = <<>> THEN results
    ELSE LET p == Head(profiles)
             rel == Canonicalize(p.FileName)
         IN  IF rel.err THEN results
             ELSE IngestProfiles(MergeProfile(results, rel.path, p), Tail(profiles))

\* ingestCoverageFile: a parse error leaves ctx as it was.
ingestCoverageFile(results, fp) ==
    IF fp.parseErr THEN results ELSE IngestProfiles(results, fp.profiles)

\* ---------------------------------------------------------- classification
\* Mutant: the hit test reads c >= 0, so a tallied line never misses.
ClassifyLine_HitOnZero(r, ln) ==
    IF ln \notin DOMAIN r.counts THEN [r EXCEPT !.Ignored = Append(@, ln)]
    ELSE IF r.counts[ln] >= 0 THEN [r EXCEPT !.Hits = Append(@, ln)]
    ELSE [r EXCEPT !.Misses = Append(@, ln)]

\* The switch of buildFileCoverage, evaluated as Go does: the first true
\* case in source order (!ok, then c > 0), default last.
ClassifyLine(r, ln) ==
    IF ln \notin DOMAIN r.counts THEN [r EXCEPT !.Ignored = Append(@, ln)]
    ELSE IF r.counts[ln] > 0 THEN [r EXCEPT !.Hits = Append(@, ln)]
    ELSE [r EXCEPT !.Misses = Append(@, ln)]

RECURSIVE ClassifyFrom_OffByOne(_, _)
\* Mutant: the loop runs while ln <= r.lines.
ClassifyFrom_OffByOne(r, ln) ==
    IF ln <= r.lines THEN ClassifyFrom_OffByOne(ClassifyLine(r, ln), ln + 1) ELSE r

RECURSIVE ClassifyFrom(_, _)
\* for ln := 0; ln < r.lines; ln++
ClassifyFrom(r, ln) ==
    IF ln < r.lines THEN ClassifyFrom(ClassifyLine(r, ln), ln + 1) ELSE r

\* lineCounter: the number of newline bytes read, and the read error if any.
lineCounter(file) == [count |-> file.newlines, err |-> file.readErr]

\* Mutant: the entry stays in the map.
Delete_Keep(results, f) == results

\* delete(ctx.Results, f)
Delete(results, f) == [k \in DOMAIN results \ {f} |-> results[k]]

\* The path buildFileCoverage opens for the key f.
SourcePath(f) == Join(ProjRoot, f)

\* buildFileCoverage(ctx, projRoot, f, r) on the file found at the path.
buildFileCoverage(results, f, file) ==
    IF file.openErr THEN Delete(results, f)
    ELSE LET lc == lineCounter(file) IN
         IF lc.err THEN Delete(results, f)
         ELSE [results EXCEPT ![f] = ClassifyFrom([@ EXCEPT !.lines = lc.count], 0)]

\* --------------------------------- the two loops of collectCoverageContext
RECURSIVE IngestAll(_, _)
\* for _, fp := range sourceFiles { ingestCoverageFile(&ctx, ..., fp) }
IngestAll(results, list) ==
    IF list = <<>> THEN results
    ELSE IngestAll(ingestCoverageFile(results, Head(list)), Tail(list))

RECURSIVE BuildAll(_, _, _)
\* for f, r := range ctx.Results { buildFileCoverage(&ctx, projRoot, f, r) },
\* the range producing the keys in the given order; files[f] is what is
\* found at the path of f.
BuildAll(results, files, order) ==
    IF order = <<>> THEN results
    ELSE BuildAll(buildFileCoverage(results, Head(order), files[Head(order)]),
                  files, Tail(order))

\* ------------------------------------------------------------------ ranker
MissCount(rz) == Len(rz.Misses)

HitCount(rz) == Len(rz.Hits)

\* A float64 quotient of two non-negative ints, kept exact: num/den, or NaN
\* for 0/0 (den = 0 only arises with num = 0 here).
FloatDiv(num, den) == [nan |-> (den = 0), num |-> num, den |-> den]

\* float64(mc) / float64(hc+mc)
MissFraction(rz) ==
    LET hc == HitCount(rz)
        mc == MissCount(rz)
    IN  FloatDiv(mc, hc + mc)

\* x < y on float64: false whenever either side is NaN.
FloatLess(x, y) == ~x.nan /\ ~y.nan /\ x.num * y.den < y.num * x.den

\* resultsByLines.Less on two results
LessByLines(a, b) == MissCount(a) < MissCount(b)

\* resultsByPercentage.Less on two results
LessByPercentage(a, b) == FloatLess(MissFraction(a), MissFraction(b))

\* The orders in which "for _, v := range ctx.Results" may produce the
\* entries: Go leaves the iteration order of a map unspecified.
RangeOrders(results) ==
    { q \in [1..Cardinality(DOMAIN results) -> DOMAIN results] :
        \A i, j \in DOMAIN q : i # j => q[i] # q[j] }

SamePermutation(q, s) ==
    /\ Len(q) = Len(s)
    /\ \A k \in DOMAIN Results : Cardinality({i \in DOMAIN q : q[i] = k})
                               = Cardinality({i \in DOMAIN s : s[i] = k})

\* sort.Sort(sort.Reverse(rs)): sort.Sort promises an ordering by Less and no
\* stability; sort.Reverse swaps the arguments of Less. The outcomes are the
\* rearrangements of the slice in which no element is Less (reversed) than
\* its predecessor.
SortReverseByLines(results, slice) ==
    { q \in RangeOrders(results) :
        /\ SamePermutation(q, slice)
        /\ \A i \in 1..(Len(q) - 1) : ~LessByLines(results[q[i]], results[q[i + 1]]) }

\* sort.Sort(sort.Reverse(ps)), likewise.
SortReverseByPercentage(results, slice) ==
    { q \in RangeOrders(results) :
        /\ SamePermutation(q, slice)
        /\ \A i \in 1..(Len(q) - 1) : ~LessByPercentage(results[q[i]], results[q[i + 1]]) }

Min(a, b) == IF a < b THEN a ELSE b

\* One line of the table: filename and MissCount() of the by-lines entry,
\* filename and MissFraction()*100 of the by-percentage entry.
Row(results, pair) ==
    [file |-> results[pair[1]].filename,
     missed |-> MissCount(results[pair[1]]),
     pfile |-> results[pair[2]].filename,
     percent |-> LET m == MissFraction(results[pair[2]])
                 IN  [m EXCEPT !.num = 100 * @]]

\* ----------------------------------------------------------------- actions
Init ==
    /\ pc = "ingest"
    /\ sourceFiles = <<>>
    /\ Results = <<>>
    /\ Now = 0
    /\ pending = {}
    /\ disk = <<>>
    /\ rsIn = <<>>
    /\ psIn = <<>>
    /\ rs = <<>>
    /\ ps = <<>>
    /\ limit = 0
    /\ rows = <<>>
    /\ out = "none"
    /\ emitErr = "none"

\* collectCoverageContext, first loop: one coverage file is ingested.
Ingest ==
    /\ pc = "ingest"
    /\ Len(sourceFiles) < MaxProfiles
    /\ \E fp \in CoverageFiles :
          /\ sourceFiles' = Append(sourceFiles, fp)
          /\ Results' = ingestCoverageFile(Results, fp)
    /\ UNCHANGED <<pc, Now, pending, disk, hitlistVars, out, emitErr>>

\* The first loop ends, and with it the last use of sourceFiles; the range
\* over ctx.Results begins.
StartBuild ==
    /\ pc = "ingest"
    /\ pc' = "build"
    /\ sourceFiles' = <<>>
    /\ pending' = DOMAIN Results
    /\ UNCHANGED <<Results, Now, disk, hitlistVars, out, emitErr>>

\* collectCoverageContext, second loop: the range produces some key not yet
\* produced (Go leaves the order open) and buildFileCoverage runs on it.
Build ==
    /\ pc = "build"
    /\ \E f \in pending, file \in SourceFiles :
          /\ pending' = pending \ {f}
          /\ disk' = [k \in DOMAIN disk \cup {SourcePath(f)} |->
                        IF k = SourcePath(f) THEN file ELSE disk[k]]
          /\ Results' = buildFileCoverage(Results, f, file)
    /\ UNCHANGED <<pc, sourceFiles, Now, hitlistVars, out, emitErr>>

\* The range is exhausted: ctx.Now = time.Now().Unix(); return ctx.
CollectReturn ==
    /\ pc = "build"
    /\ pending = {}
    /\ pc' = "main"
    /\ Now' = 1
    /\ UNCHANGED <<sourceFiles, Results, pending, disk, hitlistVars, out, emitErr>>

\* main with --hitlist: printHitlist(ctx, int(opts.limit)). The print loop
\* indexes rps[i] for every i < limit, which panics once i reaches len(rps);
\* the tabwriter is then never flushed.
PrintHitlist ==
    /\ pc = "main"
    /\ \E optLimit \in 0..MaxLimit,
          in1 \in RangeOrders(Results), in2 \in RangeOrders(Results) :
          \E s1 \in SortReverseByLines(Results, in1),
             s2 \in SortReverseByPercentage(Results, in2) :
             LET rps == [i \in 1..Len(s1) |-> <<s1[i], s2[i]>>]
                 lim == IF optLimit = 0 THEN Len(rps) ELSE optLimit
             IN  /\ rsIn' = in1
                 /\ psIn' = in2
                 /\ rs' = s1
                 /\ ps' = s2
                 /\ limit' = lim
                 /\ rows' = [i \in 1..Min(lim, Len(rps)) |-> Row(Results, rps[i])]
                 /\ pc' = IF lim > Len(rps) THEN "panic" ELSE "hitlisted"
    /\ UNCHANGED <<sourceFiles, Results, Now, pending, disk, out, emitErr>>

\* writeOut(ctx, opts), reached with or without the hitlist: os.Create
\* failing is fatal, the error of tmpl.Execute is dropped, file.Write failing
\* is fatal. The locals of printHitlist are gone by now.
WriteOut ==
    /\ pc \in {"main", "hitlisted"}
    /\ \E createOk, executeOk, writeOk \in BOOLEAN :
          IF ~createOk
          THEN /\ emitErr' = "create"
               /\ out' = "none"
               /\ pc' = "fatal"
          ELSE LET buffer == IF executeOk THEN "full" ELSE "partial" IN
               IF ~writeOk
               THEN /\ emitErr' = "write"
                    /\ out' = "partial"
                    /\ pc' = "fatal"
               ELSE /\ emitErr' = IF executeOk THEN "none" ELSE "execute"
                    /\ out' = buffer
                    /\ pc' = "done"
    /\ rsIn' = <<>> /\ psIn' = <<>> /\ rs' = <<>> /\ ps' = <<>>
    /\ limit' = 0 /\ rows' = <<>>
    /\ UNCHANGED <<sourceFiles, Results, Now, pending, disk>>

Next ==
    \/ Ingest
    \/ StartBuild
    \/ Build
    \/ CollectReturn
    \/ PrintHitlist
    \/ WriteOut

Spec == Init /\ [][Next]_vars

\* ------------------------------------------- runs on one one-block profile
\* The same program run on a single coverage file that holds one profile of
\* one block, with longer source files and wider blocks than Spec affords.
ScenarioName == <<"..", "a">>

ScenarioBlocks ==
    { b \in [StartLine : 0..ScenarioMaxLineNo, EndLine : 0..ScenarioMaxLineNo,
             Count : 0..MaxCount] : b.StartLine <= b.EndLine }

ScenarioSourceFiles ==
    { [openErr |-> TRUE, readErr |-> FALSE, newlines |-> 0],
      [openErr |-> FALSE, readErr |-> TRUE, newlines |-> 0] } \cup
    { [openErr |-> FALSE, readErr |-> FALSE, newlines |-> n] : n \in 0..ScenarioMaxLines }

\* collectCoverageContext, first loop, on the one coverage file.
IngestOne ==
    /\ pc = "ingest"
    /\ sourceFiles = <<>>
    /\ \E pb \in ScenarioBlocks :
          LET fp == [parseErr |-> FALSE,
                     profiles |-> << [FileName |-> ScenarioName, Blocks |-> <<pb>>] >>]
          IN  /\ sourceFiles' = Append(sourceFiles, fp)
              /\ Results' = ingestCoverageFile(Results, fp)
    /\ UNCHANGED <<pc, Now, pending, disk, hitlistVars, out, emitErr>>

\* collectCoverageContext, second loop, on a source file of up to
\* ScenarioMaxLines lines.
BuildOne ==
    /\ pc = "build"
    /\ \E f \in pending, file \in ScenarioSourceFiles :
          /\ pending' = pending \ {f}
          /\ disk' = [k \in DOMAIN disk \cup {SourcePath(f)} |->
                        IF k = SourcePath(f) THEN file ELSE disk[k]]
          /\ Results' = buildFileCoverage(Results, f, file)
    /\ UNCHANGED <<pc, sourceFiles, Now, hitlistVars, out, emitErr>>

NextScenario ==
    \/ IngestOne
    \/ StartBuild
    \/ BuildOne
    \/ CollectReturn
    \/ PrintHitlist
    \/ WriteOut

SpecScenario == Init /\ [][NextScenario]_vars

\* ============================================================ properties
Elems(seq) == { seq[i] : i \in DOMAIN seq }

Ascending(seq) == \A i, j \in DOMAIN seq : i < j => seq[i] < seq[j]

Collected == pc \notin {"ingest", "build"}

\* The key f has been through buildFileCoverage.
Built(f) == pc # "ingest" /\ SourcePath(f) \in DOMAIN disk

Readable(file) == ~file.openErr /\ ~file.readErr

\* ---- C1
\* C1: every result left in ctx.Results when collectCoverageContext has
\* returned splits 0..totalLines-1 (totalLines: the newlines of its source
\* file) into Hits, Misses and Ignored: pairwise disjoint, jointly all of
\* 0..totalLines-1, lengths adding up to totalLines; a tallied line number
\* outside 0..totalLines-1 is in none of the three.
C1_Partition ==
    Collected =>
        \A f \in DOMAIN Results :
            LET r == Results[f]
                totalLines == disk[SourcePath(f)].newlines
                H == Elems(r.Hits)
                M == Elems(r.Misses)
                I == Elems(r.Ignored)
            IN  /\ H \cap M = {} /\ H \cap I = {} /\ M \cap I = {}
                /\ H \cup M \cup I = 0..(totalLines - 1)
                /\ Len(r.Hits) + Len(r.Misses) + Len(r.Ignored) = totalLines
                /\ \A ln \in DOMAIN r.counts :
                      ln \notin 0..(totalLines - 1) => ln \notin H \cup M \cup I

\* A hit line next to a tallied line past the end of its file, and a file
\* with a missed and an ignored line.
C1_Witness ==
    /\ pc = "main"
    /\ \E f, g \in DOMAIN Results :
          /\ Results[f].Hits # <<>>
          /\ \E ln \in DOMAIN Results[f].counts : ln >= Results[f].lines
          /\ Results[g].Misses # <<>>
          /\ Results[g].Ignored # <<>>

\* ---- C2
\* What the ingested coverage files say, read off the list itself.
KeyOf == [n \in FileNames |-> Canonicalize(n)]

Covers(pb, ln) == pb.StartLine <= ln /\ ln <= pb.EndLine

\* The number of leading profiles of a coverage file that get merged: none
\* of an unparsable file, else those before the first name that does not
\* resolve.
MergedLen(fp) ==
    IF fp.parseErr THEN 0
    ELSE LET bad == { j \in 1..Len(fp.profiles) : KeyOf[fp.profiles[j].FileName].err }
         IN  IF bad = {} THEN Len(fp.profiles)
             ELSE (CHOOSE j \in bad : \A i \in bad : j <= i) - 1

\* The merged (file, profile, block) positions of the list that belong to
\* the key k and cover the line ln.
CoveringBlocks(list, k, ln) ==
    { t \in (1..Len(list)) \X (1..MaxEntries + 1) \X (1..MaxBlocks + 1) :
        /\ t[2] <= MergedLen(list[t[1]])
        /\ KeyOf[list[t[1]].profiles[t[2]].FileName].path = k
        /\ t[3] <= Len(list[t[1]].profiles[t[2]].Blocks)
        /\ Covers(list[t[1]].profiles[t[2]].Blocks[t[3]], ln) }

RECURSIVE SumCounts(_, _)
SumCounts(list, T) ==
    IF T = {} THEN 0
    ELSE LET t == CHOOSE x \in T : TRUE
         IN  list[t[1]].profiles[t[2]].Blocks[t[3]].Count + SumCounts(list, T \ {t})

MergedKeys(list) ==
    { KeyOf[list[i].profiles[j].FileName].path :
        <<i, j>> \in { t \in (1..Len(list)) \X (1..MaxEntries + 1) :
                         t[2] <= MergedLen(list[t[1]]) } }

\* C2: while profiles are being ingested, every line index in a counts map
\* holds the sum of the counts of all merged blocks that cover it, the map
\* holds exactly the covered lines, and a coverage file ingested twice gives
\* exactly twice the counts of ingesting it once.
C2_SumOfCounts ==
    pc = "ingest" =>
        /\ DOMAIN Results = MergedKeys(sourceFiles)
        /\ \A k \in DOMAIN Results :
              /\ DOMAIN Results[k].counts =
                    { ln \in 0..MaxLineNo : CoveringBlocks(sourceFiles, k, ln) # {} }
              /\ \A ln \in DOMAIN Results[k].counts :
                    Results[k].counts[ln] =
                        SumCounts(sourceFiles, CoveringBlocks(sourceFiles, k, ln))
        /\ (Len(sourceFiles) = 2 /\ sourceFiles[1] = sourceFiles[2]) =>
              LET once == ingestCoverageFile(<<>>, sourceFiles[1])
              IN  /\ DOMAIN Results = DOMAIN once
                  /\ \A k \in DOMAIN once :
                        /\ DOMAIN Results[k].counts = DOMAIN once[k].counts
                        /\ \A ln \in DOMAIN once[k].counts :
                              Results[k].counts[ln] = 2 * once[k].counts[ln]

\* Two blocks on line 0 of one file, with counts 2 and 3, stored as 5.
C2_Witness ==
    /\ pc = "ingest"
    /\ \E k \in DOMAIN Results :
          /\ 0 \in DOMAIN Results[k].counts
          /\ Results[k].counts[0] = 5
          /\ { sourceFiles[t[1]].profiles[t[2]].Blocks[t[3]].Count :
                 t \in CoveringBlocks(sourceFiles, k, 0) } = {2, 3}

\* ---- C3
\* C3: once buildFileCoverage has run on an entry, a line index below its
\* line count is in Ignored exactly if it is absent from counts, in Hits
\* exactly if present with a count > 0, in Misses exactly if present with
\* count 0; and each of Hits, Misses, Ignored is strictly ascending.
C3_Classification ==
    \A f \in DOMAIN Results :
        Built(f) =>
            LET r == Results[f] IN
            /\ \A ln \in 0..(r.lines - 1) :
                  /\ ln \in Elems(r.Ignored) <=> ln \notin DOMAIN r.counts
                  /\ ln \in Elems(r.Hits) <=> (ln \in DOMAIN r.counts /\ r.counts[ln] > 0)
                  /\ ln \in Elems(r.Misses) <=> (ln \in DOMAIN r.counts /\ r.counts[ln] = 0)
            /\ Ascending(r.Hits) /\ Ascending(r.Misses) /\ Ascending(r.Ignored)

\* An entry with two hit lines in order, and one with a miss and an ignored line.
C3_Witness ==
    \E f, g \in DOMAIN Results :
        /\ Built(f) /\ Built(g)
        /\ Len(Results[f].Hits) = 2
        /\ Results[g].Misses = <<0>>
        /\ Results[g].Ignored = <<1>>

\* ---- C4
\* The rearrangements of a list.
PermsOf(list) ==
    { [i \in 1..Len(list) |-> list[sigma[i]]] :
        sigma \in { g \in [1..Len(list) -> 1..Len(list)] :
                      \A i, j \in 1..Len(list) : i # j => g[i] # g[j] } }

\* The keys a name of FileNames can resolve to.
AllKeys == { KeyOf[n].path : n \in { m \in FileNames : ~KeyOf[m].err } }

\* What a reader of the context sees of the results.
Outcome(results) ==
    [k \in DOMAIN results |->
        [Hits |-> results[k].Hits, Misses |-> results[k].Misses,
         Ignored |-> results[k].Ignored]]

\* A file system that holds the given files at the given keys and an empty
\* readable file at every other key.
FileSystem(g) ==
    [k \in AllKeys |->
        IF k \in DOMAIN g THEN g[k]
        ELSE [openErr |-> FALSE, readErr |-> FALSE, newlines |-> 0]]

\* C4: whatever list of coverage files has been ingested, every
\* rearrangement of the list ends, on every file system and whatever order
\* the build loop takes, in the same paths with the same Hits, Misses and
\* Ignored as the list itself does from the tallies in ctx.Results.
C4_OrderIndependent ==
    pc = "ingest" =>
        \A q \in PermsOf(sourceFiles) :
            LET tallies == IngestAll(<<>>, q)
                order == CHOOSE o \in RangeOrders(Results) : TRUE
            IN  \A g \in [DOMAIN Results -> SourceFiles] :
                    LET here == Outcome(BuildAll(Results, FileSystem(g), order))
                    IN  \A o \in RangeOrders(tallies) :
                            Outcome(BuildAll(tallies, FileSystem(g), o)) = here

\* Two different coverage files that tally the same line of the same file, one
\* of them cut short by a name that does not resolve, the other unparsable
\* or not.
C4_Witness ==
    /\ pc = "ingest"
    /\ Len(sourceFiles) = 2
    /\ sourceFiles[1] # sourceFiles[2]
    /\ MergedLen(sourceFiles[1]) < Len(sourceFiles[1].profiles)
    /\ \E k \in DOMAIN Results :
          { t[1] : t \in CoveringBlocks(sourceFiles, k, 0) } = {1, 2}

\* ---- C5
\* C5: MissFraction() of every collected result is a defined number in
\* [0,1], namely missCount/(hitCount+missCount), and is 0 when the result
\* has neither hits nor misses.
C5_MissFractionDefined ==
    Collected =>
        \A f \in DOMAIN Results :
            LET m == MissFraction(Results[f]) IN
            /\ ~m.nan
            /\ 0 <= m.num /\ m.num <= m.den
            /\ (HitCount(Results[f]) = 0 /\ MissCount(Results[f]) = 0) => m.num = 0

\* ---- C6
\* x >= y on float64: false whenever either side is NaN.
FloatGeq(x, y) == ~x.nan /\ ~y.nan /\ x.num * y.den >= y.num * x.den

\* Where the key k stands in a slice that holds it once.
IndexOf(slice, k) == CHOOSE i \in DOMAIN slice : slice[i] = k

\* The by-lines entries of equal MissCount stand in rs in the order they
\* have in rsIn.
KeepsInputOrderByLines ==
    \A i, j \in DOMAIN rsIn :
        (i < j /\ MissCount(Results[rsIn[i]]) = MissCount(Results[rsIn[j]]))
        => IndexOf(rs, rsIn[i]) < IndexOf(rs, rsIn[j])

\* The by-percentage entries that MissFraction does not order stand in ps
\* in the order they have in psIn.
KeepsInputOrderByPercentage ==
    \A i, j \in DOMAIN psIn :
        (/\ i < j
         /\ ~LessByPercentage(Results[psIn[i]], Results[psIn[j]])
         /\ ~LessByPercentage(Results[psIn[j]], Results[psIn[i]]))
        => IndexOf(ps, psIn[i]) < IndexOf(ps, psIn[j])

\* C6: after the two sorts of printHitlist the by-lines slice is
\* non-increasing in MissCount, the by-percentage slice is non-increasing in
\* MissFraction, each holds every result once, and entries with equal keys
\* keep the order they had in the slice before the sort.
C6_StableDescending ==
    pc \in {"hitlisted", "panic"} =>
        /\ \A i, j \in DOMAIN rs :
              i < j => MissCount(Results[rs[i]]) >= MissCount(Results[rs[j]])
        /\ \A i, j \in DOMAIN ps :
              i < j => FloatGeq(MissFraction(Results[ps[i]]), MissFraction(Results[ps[j]]))
        /\ rs \in RangeOrders(Results)
        /\ ps \in RangeOrders(Results)
        /\ KeepsInputOrderByLines
        /\ KeepsInputOrderByPercentage

\* ---- C7
\* C7: the hitlist prints min(limit, number of results) rows, row i built
\* from the i-th by-lines entry and the i-th by-percentage entry, and does
\* not fail when the limit exceeds the number of results.
C7_RowsUpToLimit ==
    pc \in {"hitlisted", "panic"} =>
        /\ pc # "panic"
        /\ Len(rows) = Min(limit, Cardinality(DOMAIN Results))
        /\ \A i \in DOMAIN rows : rows[i] = Row(Results, <<rs[i], ps[i]>>)

\* ---- C8
RECURSIVE AscendingSeq(_)
\* The members of a set of numbers, smallest first.
AscendingSeq(S) ==
    IF S = {} THEN <<>>
    ELSE LET least == CHOOSE x \in S : \A y \in S : x <= y
         IN  <<least>> \o AscendingSeq(S \ {least})

\* The result of classifying the tally r against a file of n lines, line by
\* line from the tally alone.
Classified(r, n) ==
    [filename |-> r.filename, lines |-> n, counts |-> r.counts,
     Hits |-> AscendingSeq({ ln \in 0..(n - 1) : ln \in DOMAIN r.counts /\ r.counts[ln] > 0 }),
     Misses |-> AscendingSeq({ ln \in 0..(n - 1) : ln \in DOMAIN r.counts /\ r.counts[ln] = 0 }),
     Ignored |-> AscendingSeq({ ln \in 0..(n - 1) : ln \notin DOMAIN r.counts })]

\* One pass of the build loop over the key f.
C8_Step ==
    (pc = "build" /\ pending' # pending) =>
        LET f == CHOOSE x \in pending : x \notin pending'
            file == disk'[SourcePath(f)]
        IN  /\ pc' = "build"
            /\ DOMAIN Results' = IF Readable(file) THEN DOMAIN Results
                                 ELSE DOMAIN Results \ {f}
            /\ \A g \in DOMAIN Results \ {f} : Results'[g] = Results[g]
            /\ Readable(file) => Results'[f] = Classified(Results[f], file.newlines)

\* C8: when the source file of an entry cannot be opened or read, the build
\* loop removes that entry and nothing else, goes on, and gives every other
\* entry the classification its own tally and file determine; on return the
\* context holds exactly the entries whose files were readable.
C8_FailedEntryDropped ==
    /\ [][C8_Step]_vars
    /\ [](Collected =>
            \A k \in AllKeys :
                SourcePath(k) \in DOMAIN disk =>
                    (k \in DOMAIN Results <=> Readable(disk[SourcePath(k)])))

\* An unreadable file and a readable one whose entry got classified.
C8_Witness ==
    /\ pc = "main"
    /\ \E k, g \in AllKeys :
          /\ SourcePath(k) \in DOMAIN disk
          /\ ~Readable(disk[SourcePath(k)])
          /\ k \notin DOMAIN Results
          /\ g \in DOMAIN Results
          /\ Results[g].Hits # <<>>

\* ---- C9
\* The file has a name that does not resolve.
PathFailure(fp) == ~fp.parseErr /\ MergedLen(fp) < Len(fp.profiles)

\* The ingestion of one more coverage file, fp.
C9_Step ==
    (pc = "ingest" /\ Len(sourceFiles') > Len(sourceFiles)) =>
        LET fp == sourceFiles'[Len(sourceFiles')]
            added(k, ln) == SumCounts(<<fp>>, CoveringBlocks(<<fp>>, k, ln))
        IN  /\ pc' = "ingest"
            /\ PathFailure(fp) =>
                  /\ Results' = IngestProfiles(Results, SubSeq(fp.profiles, 1, MergedLen(fp)))
                  /\ \A k \in DOMAIN Results :
                        /\ k \in DOMAIN Results'
                        /\ \A ln \in DOMAIN Results[k].counts :
                              /\ ln \in DOMAIN Results'[k].counts
                              /\ Results'[k].counts[ln] = Results[k].counts[ln] + added(k, ln)
            /\ (\E i \in DOMAIN sourceFiles : PathFailure(sourceFiles[i])) =>
                  \A k \in MergedKeys(<<fp>>) :
                      /\ k \in DOMAIN Results'
                      /\ \A ln \in 0..MaxLineNo :
                            CoveringBlocks(<<fp>>, k, ln) # {} =>
                                /\ ln \in DOMAIN Results'[k].counts
                                /\ Results'[k].counts[ln] =
                                      added(k, ln)
                                      + (IF k \in DOMAIN Results /\ ln \in DOMAIN Results[k].counts
                                         THEN Results[k].counts[ln] ELSE 0)

C10_EmitFailureIsFatal == pc = "done" => (emitErr = "none" /\ out = "full")

\* ---- C11
\* C11: after the run on a single profile of one block (fileA, StartLine 1,
\* EndLine 3, Count 0) and a fileA of 5 counted lines, the result of fileA has
\* Misses = [0,1,2], Ignored = [3,4], no Hits, MissCount() = 3,
\* HitCount() = 0 and MissFraction() = 1.0. In a run of SpecScenario the
\* tally of fileA maps exactly the lines 1, 2, 3 to 0 only after that block.
C11_ScenarioResult ==
    LET fileA == Canonicalize(ScenarioName).path IN
    ( /\ Collected
      /\ fileA \in DOMAIN Results
      /\ DOMAIN Results[fileA].counts = 1..3
      /\ \A ln \in 1..3 : Results[fileA].counts[ln] = 0
      /\ Results[fileA].lines = 5 )
    => LET r == Results[fileA]
           m == MissFraction(r)
       IN  /\ r.Misses = <<0, 1, 2>>
           /\ r.Ignored = <<3, 4>>
           /\ r.Hits = <<>>
           /\ MissCount(r) = 3
           /\ HitCount(r) = 0
           /\ ~m.nan /\ m.den > 0 /\ m.num = m.den

====
